---- MODULE Spec2Model ----
(***************************************************************************)
(* Model of scripts/fetch_short_term_holder_mvrv.py: one run of main(),    *)
(* split at the statements that can raise, together with the helpers       *)
(* _normalize_cols and _pick_mvrv_column.                                  *)
(*                                                                         *)
(* Text (the response body, column names) is a sequence of one-character   *)
(* strings, so that strip, lower, startswith, slicing, replace and the     *)
(* substring test are computed character by character.                     *)
(***************************************************************************)
EXTENDS Integers, Sequences, FiniteSets, TLC

VARIABLES
    pc,              \* position of main(): the statement reached, "done" or "failed"
    api_key,         \* whether os.environ holds BMP_API_KEY
    status_code,     \* resp.status_code (0 before the request)
    raw_text,        \* resp.text
    csv_text,        \* the unwrapped body handed to pd.read_csv
    table,           \* the DataFrame as pd.read_csv returned it
    df,              \* the DataFrame main() works on (reassigned at 113 and 120)
    date_col,        \* main's date_col
    mvrv_col,        \* main's mvrv_col
    price_col,       \* main's price_col (None when no column normalizes to price)
    data,            \* main's list of output items
    data_index,      \* the index label iterrows() yielded for each item of data
    out_file,        \* content of data/short-term-holder-mvrv.json
    requests,        \* number of requests.get calls made
    writes,          \* number of write_text calls made
    trace,           \* the stages completed so far, in order
    pandas_keeps_na  \* whether the installed pandas keeps NaN through astype(str)

vars == <<pc, api_key, status_code, raw_text, csv_text, table, df, date_col, mvrv_col,
          price_col, data, data_index, out_file, requests, writes, trace,
          pandas_keeps_na>>

-----------------------------------------------------------------------------
(* Python str operations *)

\* None: a one-element sequence that is no text (no character is "None")
None == <<"None">>

Whitespace == {" ", "\t", "\n", "\r", "\f"}

Uppers == <<"A","B","C","D","E","F","G","H","I","J","K","L","M",
            "N","O","P","Q","R","S","T","U","V","W","X","Y","Z">>

Lowers == <<"a","b","c","d","e","f","g","h","i","j","k","l","m",
            "n","o","p","q","r","s","t","u","v","w","x","y","z">>

LowerChar(c) ==
    IF \E i \in 1..26 : Uppers[i] = c
    THEN Lowers[CHOOSE i \in 1..26 : Uppers[i] = c]
    ELSE c

\* str.lower()
StrLower(s) == [i \in 1..Len(s) |-> LowerChar(s[i])]

\* str.strip(): drop the leading and the trailing run of whitespace
StrStrip(s) ==
    LET keep == {i \in 1..Len(s) : s[i] \notin Whitespace}
        first == CHOOSE i \in keep : \A j \in keep : i <= j
        last == CHOOSE i \in keep : \A j \in keep : j <= i
    IN  IF keep = {} THEN <<>> ELSE SubSeq(s, first, last)

\* str.startswith(p) and str.endswith(p) for a one-character p
StartsWith(s, c) == Len(s) >= 1 /\ s[1] = c

EndsWith(s, c) == Len(s) >= 1 /\ s[Len(s)] = c

\* s[1:-1]
SliceInner(s) == SubSeq(s, 2, Len(s) - 1)

\* sub in s
Contains(sub, s) ==
    \E i \in 1..(Len(s) - Len(sub) + 1) : SubSeq(s, i, i + Len(sub) - 1) = sub

\* str.replace(old, new): left to right, non-overlapping, old non-empty
RECURSIVE StrReplace(_, _, _)
StrReplace(s, old, new) ==
    IF Len(s) < Len(old) THEN s
    ELSE IF SubSeq(s, 1, Len(old)) = old
         THEN new \o StrReplace(SubSeq(s, Len(old) + 1, Len(s)), old, new)
         ELSE <<s[1]>> \o StrReplace(Tail(s), old, new)

-----------------------------------------------------------------------------
(* Lines 80-89: the unwrapping of the response body *)

\* line 81: not raw_text.strip()
IsBlank(text) == StrStrip(text) = <<>>

\* Unquote slicing when either end is a double quote
UnquoteEitherEnd(s) ==
    IF StartsWith(s, "\"") \/ EndsWith(s, "\"") THEN SliceInner(s) ELSE s

\* lines 86-87: one leading and one trailing double quote are sliced off
Unquote(s) ==
    IF StartsWith(s, "\"") /\ EndsWith(s, "\"") THEN SliceInner(s) ELSE s

\* str.replace(old, new, 1): only the first occurrence
StrReplaceFirst(s, old, new) ==
    IF Contains(old, s)
    THEN LET at == CHOOSE i \in 1..Len(s) :
                     /\ SubSeq(s, i, i + Len(old) - 1) = old
                     /\ \A j \in 1..(i - 1) : SubSeq(s, j, j + Len(old) - 1) # old
         IN  SubSeq(s, 1, at - 1) \o new \o SubSeq(s, at + Len(old), Len(s))
    ELSE s

\* Unescape replacing the first escaped newline only
UnescapeFirst(s) == StrReplaceFirst(s, <<"\\", "n">>, <<"\n">>)

\* line 89: csv_quoted.replace("\\n", "\n")
Unescape(s) == StrReplace(s, <<"\\", "n">>, <<"\n">>)

\* lines 85-89
UnwrapText(text) == Unescape(Unquote(StrStrip(text)))

-----------------------------------------------------------------------------
(* Lines 15-66: the column resolver *)

\* A dict is the sequence of its <<key, value>> pairs in insertion order.
\* d[k] = v: a key already present keeps its position and takes the new value.
DictPut(d, k, v) ==
    IF \E i \in 1..Len(d) : d[i][1] = k
    THEN [i \in 1..Len(d) |-> IF d[i][1] = k THEN <<k, v>> ELSE d[i]]
    ELSE Append(d, <<k, v>>)

\* d.get(k, default)
DictGet(d, k, default) ==
    IF \E i \in 1..Len(d) : d[i][1] = k
    THEN d[CHOOSE i \in 1..Len(d) : d[i][1] = k][2]
    ELSE default

\* line 17: str(c).strip().lower()
NormalizeName(c) == StrLower(StrStrip(c))

RECURSIVE NormalizeFrom(_, _)
NormalizeFrom(columns, d) ==
    IF columns = <<>> THEN d
    ELSE NormalizeFrom(Tail(columns), DictPut(d, NormalizeName(Head(columns)), Head(columns)))

\* lines 15-17: {str(c).strip().lower(): c for c in df.columns}
normalize_cols(columns) == NormalizeFrom(columns, <<>>)

\* lines 31-40
excluded == {
    <<"d","a","t","e">>,
    <<"t","i","m","e">>,
    <<"t","i","m","e","s","t","a","m","p">>,
    <<"p","r","i","c","e">>,
    <<"m","a","r","k","e","t","c","a","p">>,
    <<"m","a","r","k","e","t","_","c","a","p">>,
    <<"r","e","a","l","i","z","e","d","_","c","a","p">>,
    <<"r","e","a","l","i","z","e","d","c","a","p">>
}

Str_mvrv == <<"m","v","r","v">>

Str_short == <<"s","h","o","r","t">>

Str_sth == <<"s","t","h">>

Str_date == <<"d","a","t","e">>

Str_Date == <<"D","a","t","e">>

Str_price == <<"p","r","i","c","e">>

\* the value standing for "the call raised RuntimeError"
RuntimeError == <<"RuntimeError">>

\* lines 43-48: the originals of the non-excluded keys containing "mvrv", in dict order
mvrv_candidates(colmap) ==
    LET IsCandidate(kv) == kv[1] \notin excluded /\ Contains(Str_mvrv, kv[1])
        hits == SelectSeq(colmap, IsCandidate)
    IN  [i \in 1..Len(hits) |-> hits[i][2]]

\* line 55: "short" in lc or "sth" in lc
HintsShortTerm(c) ==
    LET lc == NormalizeName(c) IN Contains(Str_short, lc) \/ Contains(Str_sth, lc)

\* lines 52-57: the first candidate hinting "short" or "sth", else None
preferred(candidates) ==
    LET hits == SelectSeq(candidates, HintsShortTerm)
    IN  IF hits = <<>> THEN None ELSE hits[1]

\* lines 61-64: the original of the first non-excluded key, else None
first_non_excluded(colmap) ==
    LET NotExcluded(kv) == kv[1] \notin excluded
        hits == SelectSeq(colmap, NotExcluded)
    IN  IF hits = <<>> THEN None ELSE hits[1][2]

\* pick_mvrv_column taking the last "mvrv" candidate where the code takes the first
pick_mvrv_column_last(columns) ==
    LET colmap == normalize_cols(columns)
        candidates == mvrv_candidates(colmap)
    IN  IF candidates # <<>>
        THEN IF preferred(candidates) # None THEN preferred(candidates)
             ELSE candidates[Len(candidates)]
        ELSE IF first_non_excluded(colmap) # None THEN first_non_excluded(colmap)
             ELSE RuntimeError

\* lines 20-66: the chosen column, or RuntimeError when the function raises
pick_mvrv_column(columns) ==
    LET colmap == normalize_cols(columns)
        candidates == mvrv_candidates(colmap)
    IN  IF candidates # <<>>
        THEN IF preferred(candidates) # None THEN preferred(candidates) ELSE candidates[1]
        ELSE IF first_non_excluded(colmap) # None THEN first_non_excluded(colmap)
             ELSE RuntimeError

\* line 97: "Date" in df.columns or "date" in [str(c).lower() for c in df.columns]
HasDateColumn(columns) ==
    \/ \E i \in 1..Len(columns) : columns[i] = Str_Date
    \/ \E i \in 1..Len(columns) : StrLower(columns[i]) = Str_date

-----------------------------------------------------------------------------
(* Lines 109-130: the DataFrame operations *)

\* A DataFrame: its column labels, and per row the index label and the cells in
\* column order. A cell of the parsed table is the text of its field, or NaN, the
\* missing value of pandas, for an empty field.
NaN == "NaN"

NoFrame == [columns |-> <<>>, index |-> <<>>, rows |-> <<>>]

\* df.empty
IsEmptyFrame(f) == Len(f.columns) = 0 \/ Len(f.rows) = 0

ColPos(columns, c) == CHOOSE i \in 1..Len(columns) : columns[i] = c

\* df[keep_cols].copy()
SelectColumns(f, keep_cols) ==
    [columns |-> keep_cols,
     index |-> f.index,
     rows |-> [r \in 1..Len(f.rows) |->
                 [k \in 1..Len(keep_cols) |-> f.rows[r][ColPos(f.columns, keep_cols[k])]]]]

\* the float a text cell parses to (written "float(...)" to tell the float from
\* the text), NaN for a cell that is no number
NumericValue(v) == CASE v = "1.5" -> "float(1.5)" [] OTHER -> NaN

\* pd.to_numeric(..., errors="coerce") on one cell
to_numeric(v) == NumericValue(v)

\* Series.astype(str) on one cell: NaN becomes the text "nan" before pandas 3,
\* and stays missing from pandas 3 on
astype_str(v, keeps_na) == IF v = NaN THEN (IF keeps_na THEN NaN ELSE "nan") ELSE v

\* df[c] = df[c].astype(str)
AsTypeStrColumn(f, c, keeps_na) ==
    [f EXCEPT !.rows = [r \in 1..Len(f.rows) |->
        [k \in 1..Len(f.columns) |->
            IF f.columns[k] = c THEN astype_str(f.rows[r][k], keeps_na) ELSE f.rows[r][k]]]]

\* df[c] = pd.to_numeric(df[c], errors="coerce")
ToNumericColumn(f, c) ==
    [f EXCEPT !.rows = [r \in 1..Len(f.rows) |->
        [k \in 1..Len(f.columns) |->
            IF f.columns[k] = c THEN to_numeric(f.rows[r][k]) ELSE f.rows[r][k]]]]

\* pd.notna
notna(v) == v # NaN

\* df.dropna(subset=subset): the rows with a value in every column of subset,
\* in order, under their index labels
DropNa(f, subset) ==
    LET Kept(r) == \A k \in 1..Len(subset) : notna(f.rows[r][ColPos(f.columns, subset[k])])
        keptPos == SelectSeq([r \in 1..Len(f.rows) |-> r], Kept)
    IN  [columns |-> f.columns,
         index |-> [j \in 1..Len(keptPos) |-> f.index[keptPos[j]]],
         rows |-> [j \in 1..Len(keptPos) |-> f.rows[keptPos[j]]]]

\* lines 109-111
KeepCols(dc, mc, pcol) == IF pcol # None THEN <<dc, mc, pcol>> ELSE <<dc, mc>>

\* lines 113-120
NormalizeFrame(f, dc, mc, pcol, keeps_na) ==
    LET f1 == SelectColumns(f, KeepCols(dc, mc, pcol))
        f2 == AsTypeStrColumn(f1, dc, keeps_na)
        f3 == ToNumericColumn(f2, mc)
        f4 == IF pcol # None THEN ToNumericColumn(f3, pcol) ELSE f3
    IN  DropNa(f4, <<dc, mc>>)

\* Item with the price field set whenever a price column exists, valid or not
ItemPriceUnchecked(f, r, dc, mc, pcol) ==
    LET base == [date |-> f.rows[r][ColPos(f.columns, dc)],
                 sth_mvrv |-> f.rows[r][ColPos(f.columns, mc)]]
    IN  IF pcol # None
        THEN [date |-> base.date, sth_mvrv |-> base.sth_mvrv,
              price |-> f.rows[r][ColPos(f.columns, pcol)]]
        ELSE base

\* lines 124-129: the item of one row
Item(f, r, dc, mc, pcol) ==
    LET base == [date |-> f.rows[r][ColPos(f.columns, dc)],
                 sth_mvrv |-> f.rows[r][ColPos(f.columns, mc)]]
    IN  IF pcol # None /\ notna(f.rows[r][ColPos(f.columns, pcol)])
        THEN [date |-> base.date, sth_mvrv |-> base.sth_mvrv,
              price |-> f.rows[r][ColPos(f.columns, pcol)]]
        ELSE base

\* lines 122-130
BuildItems(f, dc, mc, pcol) == [r \in 1..Len(f.rows) |-> Item(f, r, dc, mc, pcol)]

-----------------------------------------------------------------------------
(* Inputs: the environment, the response, and what pd.read_csv returns *)

MaxBodyLen == 5

MaxCols == 3

MaxRows == 2

MaxMainRows == 1

SeqsUpTo(S, n) == UNION {[1..k -> S] : k \in 0..n}

\* the characters response bodies are made of: the double quote, the backslash,
\* "n", a newline, a tab, and "a" for any other character
BodyChars == {"\"", "\\", "n", "\n", "\t", "a"}

Bodies == SeqsUpTo(BodyChars, MaxBodyLen)

\* the bodies of the whole-run specification: empty, blank, plain, quoted and escaped
MainBodies == {<<>>, <<"\t">>, <<"a">>, <<"\"", "a", "\\", "n", "a", "\"">>}

StatusCodes == {200, 404, 503}

OldFile == <<"previous run">>

Col_Date == <<"D","a","t","e">>

Col_date == <<"d","a","t","e">>

Col_DatePadded == <<" ","D","a","t","e">>

Col_Price == <<"P","r","i","c","e">>

Col_price == <<"p","r","i","c","e">>

Col_MarketCap == <<"M","a","r","k","e","t","C","a","p">>

Col_MVRV == <<"M","V","R","V">>

Col_mvrv == <<"m","v","r","v">>

Col_mvrv_30d == <<"m","v","r","v","_","3","0","d">>

Col_STH_MVRV == <<"S","T","H","_","M","V","R","V">>

Col_sth_mvrv == <<"s","t","h","_","m","v","r","v">>

Col_short_mvrv == <<"s","h","o","r","t","_","m","v","r","v">>

Col_Foo == <<"F","o","o">>

Col_foo == <<"f","o","o">>

ColumnNames == {Col_Date, Col_date, Col_DatePadded, Col_Price, Col_price, Col_MarketCap,
                Col_MVRV, Col_mvrv, Col_mvrv_30d, Col_STH_MVRV, Col_sth_mvrv,
                Col_short_mvrv, Col_Foo, Col_foo}

\* pd.read_csv gives every column its own label
Headers(names, n) ==
    {h \in SeqsUpTo(names, n) : Len(h) >= 1 /\ \A i, j \in 1..Len(h) : i # j => h[i] # h[j]}

CellValues == {NaN, "2024-01-01", "1.5"}

\* a table of up to n rows under header h, indexed 0, 1, ... (a RangeIndex);
\* pd.read_csv skips blank lines, so a one-column table has no missing cell
Tables(h, n) ==
    {[columns |-> h, index |-> [r \in 1..Len(rows) |-> r - 1], rows |-> rows] :
        rows \in SeqsUpTo([1..Len(h) -> IF Len(h) = 1 THEN CellValues \ {NaN} ELSE CellValues], n)}

MainHeaders == {<<Col_Date, Col_MVRV>>, <<Col_Date, Col_STH_MVRV, Col_Price>>,
                <<Col_MVRV, Col_Price>>, <<Col_Date, Col_Price, Col_MarketCap>>}

RowHeaders == {<<Col_Date, Col_MVRV>>, <<Col_date, Col_Price, Col_sth_mvrv>>,
               <<Col_Date, Col_Foo>>}

-----------------------------------------------------------------------------
(* main(), lines 69-139 *)

\* line 70: os.environ["BMP_API_KEY"] raises KeyError when the variable is unset
GetApiKey ==
    /\ pc = "key"
    /\ pc' = IF api_key THEN "get" ELSE "failed"
    /\ trace' = IF api_key THEN Append(trace, "key") ELSE trace
    /\ UNCHANGED <<api_key, status_code, raw_text, csv_text, table, df, date_col,
                  mvrv_col, price_col, data, data_index, out_file, requests, writes,
                  pandas_keeps_na>>

\* lines 76-77: one requests.get; it raises (timeout, connection error) or returns
\* a response with a status code and a body
HttpGet ==
    /\ pc = "get"
    /\ requests' = requests + 1
    /\ \E raised \in BOOLEAN, code \in StatusCodes, body \in MainBodies :
        IF raised
        THEN /\ pc' = "failed"
             /\ UNCHANGED <<status_code, raw_text, trace>>
        ELSE /\ pc' = "status"
             /\ status_code' = code
             /\ raw_text' = body
             /\ trace' = Append(trace, "get")
    /\ UNCHANGED <<api_key, csv_text, table, df, date_col, mvrv_col, price_col, data,
                  data_index, out_file, writes, pandas_keeps_na>>

\* line 78 left out: the status is printed and never raised
RaiseForStatusIgnored ==
    /\ pc = "status"
    /\ pc' = "empty"
    /\ trace' = Append(trace, "status")
    /\ UNCHANGED <<api_key, status_code, raw_text, csv_text, table, df, date_col, mvrv_col,
                   price_col, data, data_index, out_file, requests, writes,
                   pandas_keeps_na>>

\* line 78: resp.raise_for_status() raises for a 4xx or 5xx status
RaiseForStatus ==
    /\ pc = "status"
    /\ pc' = IF status_code >= 400 /\ status_code < 600 THEN "failed" ELSE "empty"
    /\ trace' = IF status_code >= 400 /\ status_code < 600 THEN trace
                ELSE Append(trace, "status")
    /\ UNCHANGED <<api_key, status_code, raw_text, csv_text, table, df, date_col,
                  mvrv_col, price_col, data, data_index, out_file, requests, writes,
                  pandas_keeps_na>>

\* lines 80-82
CheckEmpty ==
    /\ pc = "empty"
    /\ pc' = IF IsBlank(raw_text) THEN "failed" ELSE "unwrap"
    /\ trace' = IF IsBlank(raw_text) THEN trace ELSE Append(trace, "empty")
    /\ UNCHANGED <<api_key, status_code, raw_text, csv_text, table, df, date_col,
                  mvrv_col, price_col, data, data_index, out_file, requests, writes,
                  pandas_keeps_na>>

\* lines 85-89
Unwrap ==
    /\ pc = "unwrap"
    /\ csv_text' = UnwrapText(raw_text)
    /\ pc' = "parse"
    /\ trace' = Append(trace, "unwrap")
    /\ UNCHANGED <<api_key, status_code, raw_text, table, df, date_col, mvrv_col,
                  price_col, data, data_index, out_file, requests, writes,
                  pandas_keeps_na>>

MainTables == UNION {Tables(h, MaxMainRows) : h \in MainHeaders}

\* lines 91-93: pd.read_csv raises on text with no columns (EmptyDataError) and may
\* raise on malformed text (ParserError); otherwise it returns a table, which is an
\* input here. A table without rows raises at line 93.
ReadCsv ==
    /\ pc = "parse"
    /\ \E raised \in BOOLEAN, t \in MainTables :
        IF raised \/ IsBlank(csv_text) \/ IsEmptyFrame(t)
        THEN /\ pc' = "failed"
             /\ UNCHANGED <<table, df, trace>>
        ELSE /\ pc' = "date"
             /\ table' = t
             /\ df' = t
             /\ trace' = Append(trace, "parse")
    /\ UNCHANGED <<api_key, status_code, raw_text, csv_text, date_col, mvrv_col,
                  price_col, data, data_index, out_file, requests, writes,
                  pandas_keeps_na>>

\* lines 97-102
CheckDate ==
    /\ pc = "date"
    /\ IF HasDateColumn(df.columns)
       THEN /\ pc' = "resolve"
            /\ date_col' = DictGet(normalize_cols(df.columns), Str_date, Str_Date)
            /\ trace' = Append(trace, "date")
       ELSE /\ pc' = "failed"
            /\ UNCHANGED <<date_col, trace>>
    /\ UNCHANGED <<api_key, status_code, raw_text, csv_text, table, df, mvrv_col,
                  price_col, data, data_index, out_file, requests, writes,
                  pandas_keeps_na>>

\* lines 104-107
ResolveColumns ==
    /\ pc = "resolve"
    /\ IF pick_mvrv_column(df.columns) # RuntimeError
       THEN /\ pc' = "filter"
            /\ mvrv_col' = pick_mvrv_column(df.columns)
            /\ price_col' = DictGet(normalize_cols(df.columns), Str_price, None)
            /\ trace' = Append(trace, "metric")
       ELSE /\ pc' = "failed"
            /\ UNCHANGED <<mvrv_col, price_col, trace>>
    /\ UNCHANGED <<api_key, status_code, raw_text, csv_text, table, df, date_col, data,
                  data_index, out_file, requests, writes, pandas_keeps_na>>

\* lines 109-120
NormalizeFilter ==
    /\ pc = "filter"
    /\ df' = NormalizeFrame(df, date_col, mvrv_col, price_col, pandas_keeps_na)
    /\ pc' = "build"
    /\ trace' = Append(trace, "filter")
    /\ UNCHANGED <<api_key, status_code, raw_text, csv_text, table, date_col, mvrv_col,
                  price_col, data, data_index, out_file, requests, writes,
                  pandas_keeps_na>>

\* lines 122-130
BuildData ==
    /\ pc = "build"
    /\ data' = BuildItems(df, date_col, mvrv_col, price_col)
    /\ data_index' = df.index
    /\ pc' = "write"
    /\ trace' = Append(trace, "build")
    /\ UNCHANGED <<api_key, status_code, raw_text, csv_text, table, df, date_col,
                  mvrv_col, price_col, out_file, requests, writes, pandas_keeps_na>>

\* lines 132-134: the directory is created if missing and the file is replaced by
\* the JSON text of data
WriteFile ==
    /\ pc = "write"
    /\ out_file' = <<"json", data>>
    /\ writes' = writes + 1
    /\ pc' = "done"
    /\ trace' = Append(trace, "write")
    /\ UNCHANGED <<api_key, status_code, raw_text, csv_text, table, df, date_col,
                  mvrv_col, price_col, data, data_index, requests, pandas_keeps_na>>

-----------------------------------------------------------------------------
(* Specifications *)

\* the state at entry to main()
Init ==
    /\ pc = "key"
    /\ api_key \in BOOLEAN
    /\ pandas_keeps_na \in BOOLEAN
    /\ status_code = 0
    /\ raw_text = <<>>
    /\ csv_text = <<>>
    /\ table = NoFrame
    /\ df = NoFrame
    /\ date_col = None
    /\ mvrv_col = None
    /\ price_col = None
    /\ data = <<>>
    /\ data_index = <<>>
    /\ out_file = OldFile
    /\ requests = 0
    /\ writes = 0
    /\ trace = <<>>

Next ==
    \/ GetApiKey
    \/ HttpGet
    \/ RaiseForStatus
    \/ CheckEmpty
    \/ Unwrap
    \/ ReadCsv
    \/ CheckDate
    \/ ResolveColumns
    \/ NormalizeFilter
    \/ BuildData
    \/ WriteFile

\* a whole run of main()
Spec == Init /\ [][Next]_vars

\* the state once a 2xx response with body text has arrived (line 80)
InitUnwrap ==
    /\ pc = "empty"
    /\ api_key = TRUE
    /\ pandas_keeps_na \in BOOLEAN
    /\ status_code = 200
    /\ raw_text \in Bodies
    /\ csv_text = <<>>
    /\ table = NoFrame
    /\ df = NoFrame
    /\ date_col = None
    /\ mvrv_col = None
    /\ price_col = None
    /\ data = <<>>
    /\ data_index = <<>>
    /\ out_file = OldFile
    /\ requests = 1
    /\ writes = 0
    /\ trace = <<"key", "get", "status">>

NextUnwrap == CheckEmpty \/ Unwrap

\* the unwrapping of every body up to MaxBodyLen characters
SpecUnwrap == InitUnwrap /\ [][NextUnwrap]_vars

\* the state once pd.read_csv has returned table t with at least one row (line 95)
InitParsed(t) ==
    /\ pc = "date"
    /\ api_key = TRUE
    /\ pandas_keeps_na \in BOOLEAN
    /\ status_code = 200
    /\ raw_text = <<"a">>
    /\ csv_text = <<"a">>
    /\ table = t
    /\ df = t
    /\ date_col = None
    /\ mvrv_col = None
    /\ price_col = None
    /\ data = <<>>
    /\ data_index = <<>>
    /\ out_file = OldFile
    /\ requests = 1
    /\ writes = 0
    /\ trace = <<"key", "get", "status", "empty", "unwrap", "parse">>

\* one row of numbers under header h
OneRowTable(h) ==
    [columns |-> h, index |-> <<0>>, rows |-> <<[k \in 1..Len(h) |-> "1.5"]>>]

InitResolve == \E h \in Headers(ColumnNames, MaxCols) : InitParsed(OneRowTable(h))

NextResolve == CheckDate \/ ResolveColumns

\* column resolution on every header of up to MaxCols of the column names
SpecResolve == InitResolve /\ [][NextResolve]_vars

InitRows ==
    \E h \in RowHeaders : \E t \in Tables(h, MaxRows) :
        ~IsEmptyFrame(t) /\ InitParsed(t)

NextRows == CheckDate \/ ResolveColumns \/ NormalizeFilter \/ BuildData \/ WriteFile

\* the row pipeline on every table of up to MaxRows rows
SpecRows == InitRows /\ [][NextRows]_vars

-----------------------------------------------------------------------------
(* Reference notions the claims are stated in, defined over column positions *)

Columns == table.columns

\* the column at position i is a metric candidate: not excluded, name has "mvrv"
IsMvrvAt(i) ==
    /\ NormalizeName(Columns[i]) \notin excluded
    /\ Contains(Str_mvrv, NormalizeName(Columns[i]))

IsShortTermAt(i) ==
    \/ Contains(Str_short, NormalizeName(Columns[i]))
    \/ Contains(Str_sth, NormalizeName(Columns[i]))

MvrvPositions == {i \in 1..Len(Columns) : IsMvrvAt(i)}

ShortTermPositions == {i \in MvrvPositions : IsShortTermAt(i)}

NonExcludedPositions ==
    {i \in 1..Len(Columns) : NormalizeName(Columns[i]) \notin excluded}

NamedPositions(name) == {i \in 1..Len(Columns) : NormalizeName(Columns[i]) = name}

MinOf(S) == CHOOSE i \in S : \A j \in S : i <= j

MaxOf(S) == CHOOSE i \in S : \A j \in S : j <= i

\* main() has resolved the metric column (line 104 returned)
MetricResolved == "metric" \in {trace[i] : i \in 1..Len(trace)}

\* main() has passed the date check (line 102 done)
DateResolved == "date" \in {trace[i] : i \in 1..Len(trace)}

\* the run failed in the stage that follows stage s
FailedAfter(s) == pc = "failed" /\ trace # <<>> /\ trace[Len(trace)] = s

-----------------------------------------------------------------------------
(* C1-C4: column resolution, checked under SpecResolve *)

\* C1: when some non-excluded column has a normalized name containing "mvrv", the
\* metric column is the first such column in column order that also contains
\* "short" or "sth", and the first such column when none does.
C1_FirstCandidateInColumnOrder ==
    (MetricResolved /\ MvrvPositions # {}) =>
        mvrv_col = IF ShortTermPositions # {}
                   THEN Columns[MinOf(ShortTermPositions)]
                   ELSE Columns[MinOf(MvrvPositions)]

\* C2 as stated: a table with a column normalizing to exactly "mvrv" has a column
\* of that normalized name chosen as the metric column, whatever else is present.
C2_ExactMvrvAlwaysSelected ==
    (MetricResolved /\ NamedPositions(Str_mvrv) # {}) =>
        NormalizeName(mvrv_col) = Str_mvrv

\* no candidate hints "short"/"sth", and the first candidate normalizes to "mvrv"
C2_ExactMvrvLeads ==
    /\ NamedPositions(Str_mvrv) # {}
    /\ ShortTermPositions = {}
    /\ MinOf(MvrvPositions) \in NamedPositions(Str_mvrv)

\* C2 amended: a column normalizing to exactly "mvrv" is chosen as the metric
\* column when no candidate contains "short" or "sth" and no candidate of another
\* normalized name precedes it in column order.
C2_ExactMvrvSelectedWhenLeading ==
    (MetricResolved /\ C2_ExactMvrvLeads) =>
        /\ NormalizeName(mvrv_col) = Str_mvrv
        /\ \E i \in NamedPositions(Str_mvrv) : mvrv_col = Columns[i]

\* C2 witness: "mvrv" leads, another candidate follows it, and "mvrv" is chosen
C2_Witness ==
    /\ MetricResolved
    /\ C2_ExactMvrvLeads
    /\ \E i \in MvrvPositions : NormalizeName(Columns[i]) # Str_mvrv
    /\ NormalizeName(mvrv_col) = Str_mvrv

\* C3: with no "mvrv" candidate the metric column is the first column in column
\* order that is not excluded; when every column is excluded, resolution fails
\* and the run ends with no output records.
C3_FallbackFirstNonExcluded ==
    /\ (MetricResolved /\ MvrvPositions = {}) =>
            /\ NonExcludedPositions # {}
            /\ mvrv_col = Columns[MinOf(NonExcludedPositions)]
    /\ (DateResolved /\ NonExcludedPositions = {}) =>
            /\ pc \in {"resolve", "failed"}
            /\ data = <<>>
            /\ writes = 0

\* C4: the date check passes exactly when some column normalizes to "date", the
\* date column is then such a column, and no other column is ever taken.
C4_DateResolvedIffNormalizedDate ==
    /\ DateResolved =>
            \E i \in NamedPositions(Str_date) : date_col = Columns[i]
    /\ FailedAfter("parse") => NamedPositions(Str_date) = {}
    /\ ~DateResolved => date_col = None

-----------------------------------------------------------------------------
(* C5-C6: the unwrapper, checked under SpecUnwrap *)

RECURSIVE DropLeadingSpace(_)
DropLeadingSpace(s) ==
    IF s # <<>> /\ Head(s) \in Whitespace THEN DropLeadingSpace(Tail(s)) ELSE s

RECURSIVE DropTrailingSpace(_)
DropTrailingSpace(s) ==
    IF s # <<>> /\ s[Len(s)] \in Whitespace
    THEN DropTrailingSpace(SubSeq(s, 1, Len(s) - 1))
    ELSE s

\* the whitespace-trimmed text
Trimmed(s) == DropTrailingSpace(DropLeadingSpace(s))

\* the text begins and ends with a double quote
IsWrapped(t) == t # <<>> /\ Head(t) = "\"" /\ t[Len(t)] = "\""

\* the text less its leading quote and, of what is left, its trailing quote
WithoutQuotes(t) ==
    LET rest == Tail(t) IN IF rest = <<>> THEN rest ELSE SubSeq(rest, 1, Len(rest) - 1)

\* the positions where a backslash is followed by "n"
EscapeStarts(s) == {i \in 1..(Len(s) - 1) : s[i] = "\\" /\ s[i + 1] = "n"}

\* the text with a newline at each escape and the "n" of each escape left out
Decoded(s) ==
    LET NotEscapedN(i) == (i - 1) \notin EscapeStarts(s)
        keep == SelectSeq([i \in 1..Len(s) |-> i], NotEscapedN)
    IN  [k \in 1..Len(keep) |-> IF keep[k] \in EscapeStarts(s) THEN "\n" ELSE s[keep[k]]]

\* C5: a non-blank body is unwrapped to its trimmed text, less one leading and one
\* trailing double quote exactly when the trimmed text begins and ends with one,
\* with every backslash-n replaced by a newline and nothing else changed; only a
\* blank body is refused.
C5_UnwrapResult ==
    /\ pc = "parse" =>
            /\ Trimmed(raw_text) # <<>>
            /\ csv_text = Decoded(IF IsWrapped(Trimmed(raw_text))
                                  THEN WithoutQuotes(Trimmed(raw_text))
                                  ELSE Trimmed(raw_text))
    /\ FailedAfter("status") => Trimmed(raw_text) = <<>>

\* C5 witness: a body of whitespace, then a quoted escaped newline, has been
\* trimmed, unquoted and unescaped to the newline alone
C5_Witness ==
    /\ pc = "parse"
    /\ raw_text # Trimmed(raw_text)
    /\ IsWrapped(Trimmed(raw_text))
    /\ EscapeStarts(raw_text) # {}
    /\ csv_text = <<"\n">>

\* C6 as stated: on a non-blank body that is not wrapped in double quotes and has
\* no backslash-n, the unwrapper's output equals its input.
C6_PlainTextUnchanged ==
    (pc = "parse" /\ ~IsWrapped(raw_text) /\ EscapeStarts(raw_text) = {}) =>
        csv_text = raw_text

\* C6 amended: on a non-blank body whose trimmed text is not wrapped in double
\* quotes and which has no backslash-n, the output is the whitespace-trimmed input
\* (the input itself when it has no surrounding whitespace), and unwrapping the
\* output again changes nothing.
C6_PlainTextTrimmedOnly ==
    (pc = "parse" /\ ~IsWrapped(Trimmed(raw_text)) /\ EscapeStarts(raw_text) = {}) =>
        /\ csv_text = Trimmed(raw_text)
        /\ (Trimmed(raw_text) = raw_text => csv_text = raw_text)
        /\ UnwrapText(csv_text) = csv_text

\* C6 witness: a plain body ending in a newline came out without the newline
C6_Witness ==
    /\ pc = "parse"
    /\ ~IsWrapped(Trimmed(raw_text))
    /\ EscapeStarts(raw_text) = {}
    /\ Len(raw_text) >= 2
    /\ raw_text[Len(raw_text)] = "\n"
    /\ csv_text = SubSeq(raw_text, 1, Len(raw_text) - 1)

-----------------------------------------------------------------------------
(* C7-C9: rows to records, checked under SpecRows *)

\* main() has built its list of items (line 130 done)
Built == pc \in {"write", "done"}

\* the cell of table row r in the resolved column c
CellOf(r, c) == table.rows[r][ColPos(Columns, c)]

\* the texts that are numbers
IsNumberText(v) == v \in {"1.5"}

DatePresent(r) == CellOf(r, date_col) # NaN

MetricIsNumber(r) == IsNumberText(CellOf(r, mvrv_col))

\* the table row the k-th item was built from (index labels count from 0)
SourceRow(k) == data_index[k] + 1

\* the rows with a date and a numeric metric, in table order
QualifyingRows ==
    LET Qualifies(r) == DatePresent(r) /\ MetricIsNumber(r)
    IN  SelectSeq([r \in 1..Len(table.rows) |-> r], Qualifies)

\* C7: no output record comes from a row whose date cell is missing, and none
\* from a row whose metric cell is not a number.
C7_NoRecordFromInvalidRow ==
    Built => \A k \in 1..Len(data) :
                DatePresent(SourceRow(k)) /\ MetricIsNumber(SourceRow(k))

\* C8: the output holds exactly one record per row with a date and a numeric
\* metric, in table order, and a row with a bad metric never aborts the run.
C8_OneRecordPerQualifyingRowInOrder ==
    /\ Built =>
            /\ Len(data) = Len(QualifyingRows)
            /\ data_index = [k \in 1..Len(QualifyingRows) |-> QualifyingRows[k] - 1]
            /\ \A k \in 1..Len(data) :
                    /\ data[k].date = CellOf(SourceRow(k), date_col)
                    /\ data[k].sth_mvrv = NumericValue(CellOf(SourceRow(k), mvrv_col))
    /\ MetricResolved => pc # "failed"

\* C9: a record has a price exactly when a price column was resolved (some column
\* normalizes to "price") and the row's cell in it is a number, the price is then
\* that number, and every row with a date and a numeric metric is emitted
\* whatever its price cell holds.
C9_PriceFieldIffValid ==
    /\ MetricResolved =>
            /\ price_col # None <=> NamedPositions(Str_price) # {}
            /\ price_col # None => NormalizeName(price_col) = Str_price
    /\ Built =>
            /\ \A k \in 1..Len(data) :
                    /\ "price" \in DOMAIN data[k] <=>
                            /\ price_col # None
                            /\ IsNumberText(CellOf(SourceRow(k), price_col))
                    /\ "price" \in DOMAIN data[k] =>
                            data[k].price = NumericValue(CellOf(SourceRow(k), price_col))
            /\ \A r \in 1..Len(table.rows) :
                    (DatePresent(r) /\ MetricIsNumber(r)) =>
                        \E k \in 1..Len(data) : SourceRow(k) = r

\* C9 witness: with a price column, one record was written with a price and
\* another, from a row whose price is no number, without
C9_Witness ==
    /\ pc = "done"
    /\ price_col # None
    /\ \E k1, k2 \in 1..Len(data) :
            /\ "price" \in DOMAIN data[k1]
            /\ "price" \notin DOMAIN data[k2]
            /\ ~IsNumberText(CellOf(SourceRow(k2), price_col))

-----------------------------------------------------------------------------
(* C10: the order of a run, checked under Spec *)

FullOrder == <<"key", "get", "status", "empty", "unwrap", "parse", "date", "metric",
               "filter", "build", "write">>

IsPrefix(a, b) == Len(a) <= Len(b) /\ a = SubSeq(b, 1, Len(a))

InColumns(c) == \E i \in 1..Len(Columns) : Columns[i] = c

\* C10: the file is written at most once, and only once the key, the request,
\* the status, the empty-body check, the unwrapping, the parse, the date check,
\* the metric resolution and the row filtering have succeeded in that order; a
\* failed run has made its one request at most once, repeats no stage, and
\* leaves the file as it was.
C10_WriteOnceAfterAllStages ==
    /\ writes <= 1
    /\ requests <= 1
    /\ IsPrefix(trace, FullOrder)
    /\ writes = 1 <=> trace = FullOrder
    /\ writes = 1 =>
            /\ pc = "done"
            /\ api_key
            /\ requests = 1
            /\ status_code < 400
            /\ Trimmed(raw_text) # <<>>
            /\ csv_text = UnwrapText(raw_text)
            /\ table.rows # <<>>
            /\ InColumns(date_col)
            /\ InColumns(mvrv_col)
            /\ out_file = <<"json", data>>
    /\ writes = 0 => out_file = OldFile
    /\ pc = "failed" =>
            /\ writes = 0
            /\ out_file = OldFile
            /\ requests = IF api_key THEN 1 ELSE 0

\* C10 witness: a run failed at metric resolution, after one request, file untouched
C10_Witness ==
    /\ FailedAfter("date")
    /\ requests = 1
    /\ writes = 0
    /\ out_file = OldFile

====
